---- MODULE Spec2Model ----
(***************************************************************************)
(* Model of src/app.py, the Global Road Accidents dashboard.               *)
(*                                                                         *)
(* The program is one Streamlit script.  Every user interaction (opening   *)
(* the page, toggling one value of one of the four sidebar multiselects)   *)
(* runs the whole script from top to bottom: load_data() behind            *)
(* st.cache_data, the sidebar widgets, the filter block, the KPIs, the     *)
(* value counts for the pies, the pivot for the heatmap, the grouped sum   *)
(* and the summary paragraph.  A pass that raises stops at the raising     *)
(* line; what was drawn before that line stays on the page.                *)
(*                                                                         *)
(* A DataFrame is a sequence of rows; each row carries its index label     *)
(* (ix) as read_csv assigns it, so that duplicates of a CSV line stay      *)
(* different rows.  A missing CSV cell is the value NaN.                   *)
(*                                                                         *)
(* Columns that feed only count plots and the correlation heatmap (Driver  *)
(* Age Group, Driver Gender, Road Condition, Vehicle Condition) are not    *)
(* modelled.                                                               *)
(***************************************************************************)
EXTENDS Integers, Sequences, FiniteSets, TLC

VARIABLES
    file,        \* road_accident_dataset.csv: the sequence of its data lines
    ties,        \* how this build's sort orders equal keys ("first"/"last")
    cache,       \* st.cache_data entry of load_data: [loaded, data]
    fileReads,   \* how many times pd.read_csv has run in this process
    rendered,    \* TRUE once a session has run the script
    countries,   \* widget state of the four multiselects
    years,
    regions,
    severity,
    df,          \* the script's df after the last pass
    filtered_df, \* the script's filtered_df after the last pass
    page         \* what the last pass computed and drew

vars == <<file, ties, cache, fileReads, rendered, countries, years, regions,
          severity, df, filtered_df, page>>

----------------------------------------------------------------------------
(* Bounds of the model *)

\* longest file built freely from the pool of CSV lines
MaxRows == 2

\* longest file of the weather series (more distinct weathers than head(6) keeps)
MaxWide == 8

\* cap of the read counter
MaxReads == 2

----------------------------------------------------------------------------
(* Values *)

\* weather_counts keeps the first six entries: .head(6)
HeadN == 6

NaN == "NaN"

Min(S) == CHOOSE x \in S : \A y \in S : x <= y
Max(S) == CHOOSE x \in S : \A y \in S : x >= y

\* Every string of the model in Python's string order (used by sorted group
\* keys and by Series.mode(), whose result is sorted).
Alphabetical ==
    <<"Clear", "Cloudy", "Drunk Driving", "Foggy", "India", "Minor", "Mon",
      "Morning", "Night", "North", "Rainy", "Rural", "Severe", "Snowy",
      "South", "Speeding", "Stormy", "Tue", "USA", "Urban", "Windy">>

Rank(v) == CHOOSE i \in DOMAIN Alphabetical : Alphabetical[i] = v

\* str.lower() on the values the summary lowercases
Lower(v) ==
    CASE v = "Urban"   -> "urban"
      [] v = "Rural"   -> "rural"
      [] v = "Morning" -> "morning"
      [] v = "Night"   -> "night"
      [] OTHER         -> v

CsvLine(c, y, r, s, a, w, d, t, cause, f, i, rt, el, mc) ==
    [Country |-> c, Year |-> y, Region |-> r, Severity |-> s, UrbanRural |-> a,
     Weather |-> w, DayOfWeek |-> d, TimeOfDay |-> t, Cause |-> cause,
     Fatalities |-> f, Injuries |-> i, ResponseTime |-> rt,
     EconomicLoss |-> el, MedicalCost |-> mc]

\* The CSV lines short files are built from: a complete line, one that
\* misses its weather, one that misses its severity, one that misses its
\* region.
Pool ==
    { CsvLine("USA", 2020, "North", "Minor", "Urban", "Clear", "Mon", "Morning",
              "Speeding", 1, 2, 10, 100, 10),
      CsvLine("India", 2021, "South", "Severe", "Rural", NaN, "Tue", "Night",
              "Drunk Driving", 3, 4, 12, 100, 7),
      CsvLine("USA", 2021, "South", NaN, "Urban", "Rainy", "Mon", "Night",
              "Speeding", 1, 1500, 8, 50, 3),
      CsvLine("India", 2020, NaN, "Severe", "Rural", "Rainy", "Tue", "Morning",
              "Drunk Driving", 0, 1, 21, 200, 20) }

\* The documented scenario: USA, USA, India; North 100 and 200, South 50.
ExampleFile ==
    << CsvLine("USA", 2020, "North", "Minor", "Urban", "Clear", "Mon", "Morning",
               "Speeding", 1, 2, 10, 100, 10),
       CsvLine("USA", 2021, "North", "Severe", "Rural", "Rainy", "Mon", "Night",
               "Drunk Driving", 0, 1500, 21, 200, 20),
       CsvLine("India", 2020, "South", "Minor", "Urban", "Clear", "Tue", "Morning",
               "Speeding", 2, 0, 15, 50, 5) >>

WideWeather ==
    <<"Clear", "Cloudy", "Foggy", "Rainy", "Snowy", "Stormy", "Windy", NaN>>

\* Line i of the weather series: the weathers cycle through seven names and
\* one missing cell.
WideLine(i) ==
    CsvLine("USA", 2020, "North",
            IF i % 2 = 1 THEN "Minor" ELSE "Severe",
            IF i % 3 = 0 THEN "Rural" ELSE "Urban",
            WideWeather[((i - 1) % Len(WideWeather)) + 1],
            IF i % 2 = 1 THEN "Mon" ELSE "Tue",
            IF i % 4 < 2 THEN "Morning" ELSE "Night",
            "Speeding", i % 2, 1, i, 10 * i, i)

\* a file holds at least one data line
ShortFiles == UNION { [1..n -> Pool] : n \in 1..MaxRows }

WideFiles == { [i \in 1..n |-> WideLine(i)] : n \in (HeadN + 1)..MaxWide }

Files == ShortFiles \cup WideFiles \cup {ExampleFile}

----------------------------------------------------------------------------
(* The dataframe primitives the script calls *)

\* pd.read_csv: the lines become rows labelled 0, 1, 2, ... (RangeIndex)
read_csv(f) == [i \in 1..Len(f) |-> ("ix" :> (i - 1)) @@ f[i]]

\* DataFrame.copy(): a new frame with the same rows
copy(d) == d

\* d[d[col].isin(S)]: the rows whose value is in S, in order, labels kept
Isin(d, col, S) == SelectSeq(d, LAMBDA r : r[col] \in S)

\* Series.unique(): the distinct values in order of first appearance (NaN
\* included); only the set matters to the widgets
unique(d, col) == { d[i][col] : i \in DOMAIN d }

\* Series.sum() of a numeric column (0 for no rows)
RECURSIVE sum(_, _)
sum(d, col) == IF d = <<>> THEN 0 ELSE d[1][col] + sum(Tail(d), col)

\* number of rows whose value of col is v
CountOf(d, col, v) == Cardinality({ i \in DOMAIN d : d[i][col] = v })

\* position of the first row whose value of col is v
FirstAt(d, col, v) == Min({ i \in DOMAIN d : d[i][col] = v })

\* descending sort by key of the positions in rest; equal keys keep their
\* order ("first") or reverse it ("last"), as the build's sort does
RECURSIVE SortDescRest(_, _, _)
SortDescRest(keys, rest, tie) ==
    IF rest = {} THEN <<>>
    ELSE LET m == Max({ keys[i] : i \in rest })
             c == { i \in rest : keys[i] = m }
             k == IF tie = "first" THEN Min(c) ELSE Max(c)
         IN  <<k>> \o SortDescRest(keys, rest \ {k}, tie)

\* the same sort, smallest key first
sort_asc(keys, tie) ==
    SortDescRest([i \in DOMAIN keys |-> 0 - keys[i]], DOMAIN keys, tie)

\* sort_values(ascending=False): the permutation that sorts keys descending
sort_desc(keys, tie) == SortDescRest(keys, DOMAIN keys, tie)

\* a set of strings as the sorted sequence of its members
RECURSIVE Sorted(_)
Sorted(S) ==
    IF S = {} THEN <<>>
    ELSE LET v == CHOOSE x \in S : \A y \in S : Rank(x) <= Rank(y)
         IN  <<v>> \o Sorted(S \ {v})

\* the non-missing values of col in order of first appearance
Appearing(d, col) ==
    LET vals  == unique(d, col) \ {NaN}
        first == [v \in vals |-> FirstAt(d, col, v)]
        RECURSIVE Walk(_)
        Walk(S) == IF S = {} THEN <<>>
                   ELSE LET v == CHOOSE x \in S : \A y \in S : first[x] <= first[y]
                        IN  <<v>> \o Walk(S \ {v})
    IN  Walk(vals)

\* value_counts(dropna=False): the missing value counted like any other
value_counts_keepna(d, col, tie) ==
    LET vals == Sorted(unique(d, col) \ {NaN})
                  \o (IF NaN \in unique(d, col) THEN <<NaN>> ELSE <<>>)
        raw  == [i \in DOMAIN vals |->
                    [value |-> vals[i], count |-> CountOf(d, col, vals[i])]]
        perm == sort_desc([i \in DOMAIN raw |-> raw[i].count], tie)
    IN  [i \in DOMAIN perm |-> raw[perm[i]]]

\* Series.value_counts(): one entry per non-missing distinct value (dropna
\* defaults to True), sorted by count, largest first
value_counts(d, col, tie) ==
    LET vals == Appearing(d, col)
        raw  == [i \in DOMAIN vals |->
                    [value |-> vals[i], count |-> CountOf(d, col, vals[i])]]
        perm == sort_desc([i \in DOMAIN raw |-> raw[i].count], tie)
    IN  [i \in DOMAIN perm |-> raw[perm[i]]]

\* .head(n)
head(s, n) == SubSeq(s, 1, IF Len(s) < n THEN Len(s) ELSE n)

\* pivot_table(index="Day of Week", columns="Time of Day",
\*             values="Accident Severity", aggfunc="count", fill_value=0):
\* rows with a missing day or time belong to no group; a cell counts the
\* group's non-missing severities; an absent combination is 0
pivot_table(d) ==
    LET kept  == SelectSeq(d, LAMBDA r : r.DayOfWeek # NaN /\ r.TimeOfDay # NaN)
        days  == unique(kept, "DayOfWeek")
        times == unique(kept, "TimeOfDay")
    IN  [p \in days \X times |->
            Cardinality({ i \in DOMAIN kept :
                            /\ kept[i].DayOfWeek = p[1]
                            /\ kept[i].TimeOfDay = p[2]
                            /\ kept[i].Severity # NaN })]

\* groupby("Region")[["Economic Loss", "Medical Cost"]].sum(): one entry per
\* non-missing region, in sorted key order
groupby_sum(d) ==
    LET keys == Sorted(unique(d, "Region") \ {NaN})
    IN  [i \in DOMAIN keys |->
            LET g == Isin(d, "Region", {keys[i]})
            IN  [Region       |-> keys[i],
                 EconomicLoss |-> sum(g, "EconomicLoss"),
                 MedicalCost  |-> sum(g, "MedicalCost")]]

\* .sort_values("Economic Loss", ascending=False)
sort_values(t, tie) ==
    LET perm == sort_desc([i \in DOMAIN t |-> t[i].EconomicLoss], tie)
    IN  [i \in DOMAIN perm |-> t[perm[i]]]

\* Series.mode(): the most frequent non-missing values, sorted
mode(d, col) ==
    LET vals == unique(d, col) \ {NaN}
        top  == { v \in vals : \A w \in vals : CountOf(d, col, v) >= CountOf(d, col, w) }
    IN  Sorted(top)

----------------------------------------------------------------------------
(* Number formatting of the KPIs *)

\* f"{n:,}": the decimal groups of three digits, most significant first
\* (1500 is shown as 1,500: the groups 1 and 500)
RECURSIVE Commas(_)
Commas(n) == IF n < 1000 THEN <<n>> ELSE Commas(n \div 1000) \o <<n % 1000>>

\* f"{total / n:.2f}" of Series.mean(): "nan" for no rows, else the quotient
\* rounded to hundredths, a tie going to the even hundredth (a tie needs a
\* quotient with denominator 8, which a double holds exactly)
Fixed2(total, n) ==
    IF n = 0 THEN [nan |-> TRUE, whole |-> 0, cents |-> 0]
    ELSE LET q == (100 * total) \div n
             r == (100 * total) % n
             h == IF 2 * r < n THEN q
                  ELSE IF 2 * r > n THEN q + 1
                  ELSE IF q % 2 = 0 THEN q ELSE q + 1
         IN  [nan |-> FALSE, whole |-> h \div 100, cents |-> h % 100]

----------------------------------------------------------------------------
(* The script *)

\* load_data without the decorator: every call reads the file
load_data_uncached(c, f) ==
    [cache |-> [loaded |-> TRUE, data |-> read_csv(f)],
     reads |-> 1, value |-> read_csv(f)]

\* @st.cache_data def load_data(): a miss reads the file and stores the
\* result; a hit returns the stored dataset without running the body
load_data(c, f) ==
    IF c.loaded
    THEN [cache |-> c, reads |-> 0, value |-> c.data]
    ELSE [cache |-> [loaded |-> TRUE, data |-> read_csv(f)],
          reads |-> 1, value |-> read_csv(f)]

\* the step without its "if S:" guard
FilterStepUnguarded(v, col, S) == Isin(v, col, S)

\* if S: v = v[v[col].isin(S)]
FilterStep(v, col, S) == IF S # {} THEN Isin(v, col, S) ELSE v

\* the four ifs written as one if/elif chain: only the first active one runs
ApplyFilterElif(d, c, y, r, s) ==
    IF c # {} THEN Isin(copy(d), "Country", c)
    ELSE IF y # {} THEN Isin(copy(d), "Year", y)
    ELSE IF r # {} THEN Isin(copy(d), "Region", r)
    ELSE IF s # {} THEN Isin(copy(d), "Severity", s)
    ELSE copy(d)

\* the value of filtered_df after lines 29-37
ApplyFilter(d, c, y, r, s) ==
    FilterStep(FilterStep(FilterStep(FilterStep(copy(d),
        "Country", c), "Year", y), "Region", r), "Severity", s)

\* the filter without df.copy(), dropping the rows in place
SidebarFilterInPlace(d, c, y, r, s) ==
    [df |-> FilterStep(FilterStep(FilterStep(FilterStep(d,
                "Country", c), "Year", y), "Region", r), "Severity", s),
     filtered_df |-> FilterStep(FilterStep(FilterStep(FilterStep(d,
                "Country", c), "Year", y), "Region", r), "Severity", s)]

\* lines 29-37 as a change of the two names df and filtered_df
SidebarFilter(d, c, y, r, s) ==
    [df |-> d, filtered_df |-> ApplyFilter(d, c, y, r, s)]

\* the four st.metric values
KPIs(v) ==
    [total      |-> Commas(Len(v)),
     fatalities |-> Commas(sum(v, "Fatalities")),
     injuries   |-> Commas(sum(v, "Injuries")),
     avg        |-> Fixed2(sum(v, "ResponseTime"), Len(v))]

NoSummary ==
    [written |-> FALSE, area |-> "", time |-> "", weather |-> "", cause |-> "",
     fatalities |-> <<>>, injuries |-> <<>>]

\* the summary paragraph: mode()[0] of four columns and two sums
Summary(v) ==
    [written    |-> TRUE,
     area       |-> Lower(mode(v, "UrbanRural")[1]),
     time       |-> Lower(mode(v, "TimeOfDay")[1]),
     weather    |-> mode(v, "Weather")[1],
     cause      |-> mode(v, "Cause")[1],
     fatalities |-> Commas(sum(v, "Fatalities")),
     injuries   |-> Commas(sum(v, "Injuries"))]

\* The line at which a pass over view v raises, 0 if it runs to the end:
\* sns.heatmap of a pivot with no cells (ValueError, the minimum of nothing),
\* econ.plot of a frame with no rows (TypeError, no numeric data to plot),
\* and [0] of an empty mode (KeyError).
RaisedAt(v) ==
    IF DOMAIN pivot_table(v) = {} THEN 94
    ELSE IF groupby_sum(v) = <<>> THEN 146
    ELSE IF mode(v, "Weather") = <<>> THEN 163
    ELSE IF mode(v, "Cause") = <<>> THEN 164
    ELSE IF mode(v, "UrbanRural") = <<>> THEN 165
    ELSE IF mode(v, "TimeOfDay") = <<>> THEN 166
    ELSE 0

\* What a pass over view v computes and draws; a name the pass did not
\* reach keeps its empty value.
Render(v, tie) ==
    LET at == RaisedAt(v)
        reached(line) == at = 0 \/ at > line
    IN  [raised          |-> at,
         kpi             |-> KPIs(v),
         severity_counts |-> value_counts(v, "Severity", tie),
         area_counts     |-> value_counts(v, "UrbanRural", tie),
         weather_counts  |-> head(value_counts(v, "Weather", tie), HeadN),
         pivot           |-> pivot_table(v),
         econ            |-> IF reached(144)
                             THEN sort_values(groupby_sum(v), tie) ELSE <<>>,
         summary         |-> IF at = 0 THEN Summary(v) ELSE NoSummary]

NoPage ==
    [raised          |-> 0,
     kpi             |-> [total |-> <<>>, fatalities |-> <<>>, injuries |-> <<>>,
                          avg |-> [nan |-> FALSE, whole |-> 0, cents |-> 0]],
     severity_counts |-> <<>>,
     area_counts     |-> <<>>,
     weather_counts  |-> <<>>,
     pivot           |-> <<>>,
     econ            |-> <<>>,
     summary         |-> NoSummary]

----------------------------------------------------------------------------
(* Behaviour *)

Init ==
    /\ file \in Files
    /\ ties \in {"first", "last"}
    /\ cache = [loaded |-> FALSE, data |-> <<>>]
    /\ fileReads = 0
    /\ rendered = FALSE
    /\ countries = {}
    /\ years = {}
    /\ regions = {}
    /\ severity = {}
    /\ df = <<>>
    /\ filtered_df = <<>>
    /\ page = NoPage

\* A pass that keeps the view and the page of the pass before it.
RenderPassStale(c, y, r, s) ==
    LET ld == load_data(cache, file)
        b  == SidebarFilter(ld.value, c, y, r, s)
    IN  /\ fileReads + ld.reads <= MaxReads
        /\ cache' = ld.cache
        /\ fileReads' = fileReads + ld.reads
        /\ rendered' = TRUE
        /\ countries' = c
        /\ years' = y
        /\ regions' = r
        /\ severity' = s
        /\ df' = b.df
        /\ filtered_df' = IF rendered THEN filtered_df ELSE b.filtered_df
        /\ page' = IF rendered THEN page ELSE Render(b.filtered_df, ties)
        /\ UNCHANGED <<file, ties>>

\* One run of the script with the widgets holding c, y, r, s.
RenderPass(c, y, r, s) ==
    LET ld == load_data(cache, file)
        b  == SidebarFilter(ld.value, c, y, r, s)
    IN  /\ fileReads + ld.reads <= MaxReads
        /\ cache' = ld.cache
        /\ fileReads' = fileReads + ld.reads
        /\ rendered' = TRUE
        /\ countries' = c
        /\ years' = y
        /\ regions' = r
        /\ severity' = s
        /\ df' = b.df
        /\ filtered_df' = b.filtered_df
        /\ page' = Render(b.filtered_df, ties)
        /\ UNCHANGED <<file, ties>>

Toggle(S, v) == IF v \in S THEN S \ {v} ELSE S \cup {v}

\* A browser session opens the page: every multiselect starts empty.
OpenSession == RenderPass({}, {}, {}, {})

\* The user adds or removes one value of one multiselect; the options are
\* the values of that column in df.
ToggleCountry ==
    /\ rendered
    /\ \E v \in unique(df, "Country") :
          RenderPass(Toggle(countries, v), years, regions, severity)

ToggleYear ==
    /\ rendered
    /\ \E v \in unique(df, "Year") :
          RenderPass(countries, Toggle(years, v), regions, severity)

ToggleRegion ==
    /\ rendered
    /\ \E v \in unique(df, "Region") :
          RenderPass(countries, years, Toggle(regions, v), severity)

ToggleSeverity ==
    /\ rendered
    /\ \E v \in unique(df, "Severity") :
          RenderPass(countries, years, regions, Toggle(severity, v))

Next ==
    \/ OpenSession
    \/ ToggleCountry
    \/ ToggleYear
    \/ ToggleRegion
    \/ ToggleSeverity

Spec == Init /\ [][Next]_vars

----------------------------------------------------------------------------
(* Properties *)

\* the dataset as loaded from the file
Dataset == read_csv(file)

Rows(d) == { d[i] : i \in DOMAIN d }

AnySelected == countries # {} \/ years # {} \/ regions # {} \/ severity # {}

\* row r passes every multiselect that holds a value
Satisfies(r) ==
    /\ countries # {} => r.Country \in countries
    /\ years # {} => r.Year \in years
    /\ regions # {} => r.Region \in regions
    /\ severity # {} => r.Severity \in severity

RECURSIVE SumCounts(_)
SumCounts(t) == IF t = <<>> THEN 0 ELSE t[1].count + SumCounts(Tail(t))

RECURSIVE SumCells(_, _)
SumCells(f, S) ==
    IF S = {} THEN 0
    ELSE LET p == CHOOSE x \in S : TRUE IN f[p] + SumCells(f, S \ {p})

\* rows of d whose value of col is not missing
Present(d, col) == Cardinality({ i \in DOMAIN d : d[i][col] # NaN })

Values(d, col) == unique(d, col) \ {NaN}

\* the pass reached the given line of the script
Reached(line) == rendered /\ (page.raised = 0 \/ page.raised > line)

\* C1: with at least one multiselect holding a value, the filtered view holds
\* exactly the dataset rows that pass every multiselect holding a value:
\* every row of the view is such a row, every such row is in the view, once.
FilterSoundAndComplete ==
    (rendered /\ AnySelected) =>
        /\ \A j \in DOMAIN filtered_df :
              filtered_df[j] \in Rows(Dataset) /\ Satisfies(filtered_df[j])
        /\ \A i \in DOMAIN Dataset :
              Satisfies(Dataset[i]) => Dataset[i] \in Rows(filtered_df)
        /\ Cardinality(Rows(filtered_df)) = Len(filtered_df)

FilterWitness ==
    /\ rendered
    /\ countries # {}
    /\ years # {}
    /\ Len(filtered_df) > 0
    /\ Len(filtered_df) < Len(Dataset)
    /\ \E i \in DOMAIN Dataset :
          Dataset[i].Country \in countries /\ Dataset[i].Year \notin years

\* C2: with all four multiselects empty the filtered view is the full
\* dataset, same rows in the same order.
EmptySelectionIsIdentity ==
    (rendered /\ ~AnySelected) => filtered_df = Dataset

IdentityWitness ==
    rendered /\ ~AnySelected /\ Len(filtered_df) >= 2 /\ filtered_df = Dataset

Placeholder == "no data"

\* C3: a pass over a view of zero rows runs to its end and writes the summary
\* with a placeholder for each of the four undefined modes.
EmptyViewSummaryHasPlaceholders ==
    (rendered /\ filtered_df = <<>>) =>
        /\ page.raised = 0
        /\ page.summary.written
        /\ page.summary.weather = Placeholder
        /\ page.summary.cause = Placeholder
        /\ page.summary.area = Placeholder
        /\ page.summary.time = Placeholder

\* C4: over a view of zero rows the four KPIs show 0.
EmptyViewKpisShowZero ==
    (rendered /\ filtered_df = <<>>) =>
        /\ page.kpi.total = <<0>>
        /\ page.kpi.fatalities = <<0>>
        /\ page.kpi.injuries = <<0>>
        /\ page.kpi.avg = [nan |-> FALSE, whole |-> 0, cents |-> 0]

\* C5 as stated: the counts of each of the three value-count tables sum to
\* the number of rows of the filtered view.
ValueCountsSumToRows ==
    rendered =>
        /\ SumCounts(page.severity_counts) = Len(filtered_df)
        /\ SumCounts(page.area_counts) = Len(filtered_df)
        /\ SumCounts(page.weather_counts) = Len(filtered_df)

\* table t counts values of col: distinct non-missing values of the view,
\* each with its number of rows
CountsOf(t, col) ==
    /\ \A i \in DOMAIN t :
          /\ t[i].value \in Values(filtered_df, col)
          /\ t[i].count = CountOf(filtered_df, col, t[i].value)
    /\ \A i, j \in DOMAIN t : t[i].value = t[j].value => i = j

\* C5: the severity and urban/rural counts each sum to the number of rows
\* whose value is not missing; the weather counts keep the six most frequent
\* values and sum to the number of rows with a weather exactly when the view
\* has at most six distinct weathers, and to less otherwise.
ValueCountsSumToPresentRows ==
    rendered =>
        /\ CountsOf(page.severity_counts, "Severity")
        /\ SumCounts(page.severity_counts) = Present(filtered_df, "Severity")
        /\ CountsOf(page.area_counts, "UrbanRural")
        /\ SumCounts(page.area_counts) = Present(filtered_df, "UrbanRural")
        /\ CountsOf(page.weather_counts, "Weather")
        /\ LET n == Cardinality(Values(filtered_df, "Weather"))
               kept == { page.weather_counts[i].value : i \in DOMAIN page.weather_counts }
           IN  /\ Len(page.weather_counts) = IF n <= HeadN THEN n ELSE HeadN
               /\ \A v \in Values(filtered_df, "Weather") \ kept :
                     \A i \in DOMAIN page.weather_counts :
                        CountOf(filtered_df, "Weather", v) <= page.weather_counts[i].count
               /\ n <= HeadN =>
                     SumCounts(page.weather_counts) = Present(filtered_df, "Weather")
               /\ n > HeadN =>
                     SumCounts(page.weather_counts) < Present(filtered_df, "Weather")

ValueCountsWitness ==
    /\ rendered
    /\ Cardinality(Values(filtered_df, "Weather")) > HeadN
    /\ Present(filtered_df, "Weather") < Len(filtered_df)
    /\ SumCounts(page.weather_counts) = HeadN
    /\ Present(filtered_df, "Severity") = Len(filtered_df)

\* C6: the cells of the day by time table sum to the number of rows of the
\* filtered view, each cell being the number of rows with that day and time.
PivotCountsEveryRow ==
    rendered =>
        /\ SumCells(page.pivot, DOMAIN page.pivot) = Len(filtered_df)
        /\ \A p \in DOMAIN page.pivot :
              page.pivot[p] =
                 Cardinality({ i \in DOMAIN filtered_df :
                                 /\ filtered_df[i].DayOfWeek = p[1]
                                 /\ filtered_df[i].TimeOfDay = p[2] })

\* C7: the grouped sum maps each region of the view to the sums of Economic
\* Loss and Medical Cost over that region's rows, once, largest Economic
\* Loss first.
EconSumsByRegionDescending ==
    Reached(144) =>
        /\ { page.econ[i].Region : i \in DOMAIN page.econ } = Values(filtered_df, "Region")
        /\ Len(page.econ) = Cardinality(Values(filtered_df, "Region"))
        /\ \A i \in DOMAIN page.econ :
              LET g == SelectSeq(filtered_df, LAMBDA r : r.Region = page.econ[i].Region)
              IN  /\ page.econ[i].EconomicLoss = sum(g, "EconomicLoss")
                  /\ page.econ[i].MedicalCost = sum(g, "MedicalCost")
        /\ \A i, j \in DOMAIN page.econ :
              i < j => page.econ[i].EconomicLoss >= page.econ[j].EconomicLoss

EconWitness ==
    /\ Reached(144)
    /\ page.econ = << [Region |-> "North", EconomicLoss |-> 300, MedicalCost |-> 30],
                      [Region |-> "South", EconomicLoss |-> 50, MedicalCost |-> 5] >>

\* C8: the file is read at most once in the process: once load_data has
\* stored the dataset, no later pass reads the file, and every pass works on
\* the stored dataset.
FileReadAtMostOnce ==
    /\ [](fileReads <= 1)
    /\ [][cache.loaded =>
            /\ fileReads' = fileReads
            /\ cache' = cache
            /\ df' = cache.data]_vars

ReadOnceWitness ==
    rendered /\ countries # {} /\ severity # {} /\ fileReads = 1

\* C9: after every pass the dataset is what the load produced: df and the
\* stored dataset hold the rows and values of the file.
DatasetNeverMutated ==
    rendered => (df = Dataset /\ cache.data = Dataset)

NeverMutatedWitness ==
    /\ rendered
    /\ AnySelected
    /\ Len(filtered_df) < Len(df)
    /\ page.raised = 0

\* C10: the view and everything on the page are a function of the dataset
\* and the current selection, whatever selections came before.
PageDependsOnCurrentSelectionOnly ==
    rendered =>
        /\ filtered_df = ApplyFilter(Dataset, countries, years, regions, severity)
        /\ page = Render(ApplyFilter(Dataset, countries, years, regions, severity), ties)

CurrentSelectionWitness ==
    /\ rendered
    /\ Cardinality(countries) + Cardinality(years)
         + Cardinality(regions) + Cardinality(severity) >= 3
    /\ page.raised = 0
    /\ Len(filtered_df) >= 2

====
